---- MODULE Spec2Model ----
(***************************************************************************)
(* Model of scripts/pi_recorder.py: the recording window test, one         *)
(* capture -> encode -> upload session, and the supervising main loop;     *)
(* next to it, the start-up of main (get_config) and, each on its own,     *)
(* the window test, the parameter resolution and the chunk count.          *)
(*                                                                         *)
(* Environment assumptions of the model:                                   *)
(*  - log_message and os.remove do not raise (log persistence and the      *)
(*    recordings directory are reliable);                                  *)
(*  - the calls that may raise are pyaudio.PyAudio(), p.open, stream.read, *)
(*    stream.stop_stream, the wave write and client.upload_file;           *)
(*  - the wall clock (datetime.now) never runs backwards; it need not       *)
(*    advance between two readings, except across a stream.read that       *)
(*    returns a chunk;                                                     *)
(*  - a KeyboardInterrupt may be delivered at any point of the main loop.  *)
(***************************************************************************)
EXTENDS Integers, Sequences, FiniteSets, TLC

VARIABLES
    pc,          \* position of the main thread
    now,         \* last wall-clock reading, in half seconds since 00:00 of BaseDate
    env,         \* the process environment (AUDIO_* overrides), as character sequences
    lastLog,     \* the last line given to log_message
    sleepSecs,   \* argument of the time.sleep call in progress (0: not sleeping)
    sessions,    \* number of sessions started so far
    startedAt,   \* the clock reading of line 206, from which timestamp is formatted
    filename,    \* record_and_upload_session: filename
    p,           \* the session's PyAudio instance: "none", "live", "terminated"
    stream,      \* the session's stream: "none", "open", "stopped", "closed"
    params,      \* sample_rate, channels, chunk_size, device_index of the session
    total,       \* record_audio: total_chunks
    reads,       \* record_audio: iterations of the read loop done
    readErrors,  \* record_audio: iterations whose stream.read raised
    frames,      \* record_audio: frames
    recorded,    \* value returned by record_audio ("none" before it returns)
    written,     \* content the encoder wrote in this session ("none" if nothing)
    files,       \* temp_recordings directory: path -> content
    uploads,     \* history of client.upload_file calls (with the session that made
                 \* each, its start and the clock reading the key was built from)
    paLive,      \* PyAudio instances initialised and not terminated
    streamsOpen, \* streams opened and not closed
    wHours,      \* window probe: RECORDING_HOURS
    wNow,        \* window probe: datetime.now().time()
    wResult,     \* window probe: result of is_recording_time
    rEnv,        \* resolver probe: the AUDIO_* overrides
    rDev,        \* resolver probe: what the audio host reports
    rOut,        \* resolver probe: result of get_audio_settings (<<>> before the call)
    kIn,         \* chunk count probe: <<sample_rate, chunk_size, duration>>
    kOut,        \* chunk count probe: total_chunks (<<>> before line 154)
    environ,     \* start-up: os.environ after load_dotenv, for the Config keys
    config,      \* start-up: get_config's config dict
    cfgNext      \* start-up: position of the loop of lines 67-73 in config.keys()

sessVars == <<startedAt, filename, p, stream, params, total, reads, readErrors, frames,
              recorded, written>>
diskVars == <<files, uploads>>
leakVars == <<paLive, streamsOpen>>
windowVars == <<wHours, wNow, wResult>>
resolverVars == <<rEnv, rDev, rOut>>
chunkVars == <<kIn, kOut>>
startVars == <<environ, config, cfgNext>>
probeVars == <<windowVars, resolverVars, chunkVars, startVars>>
vars == <<pc, now, env, lastLog, sleepSecs, sessions, sessVars, diskVars, leakVars,
          probeVars>>

----------------------------------------------------------------------------
(* Bounds of the model *)

MaxSessions == 2
MaxElapsed == 5

(* Program constants *)

RECORDING_HOURS == <<0, 23>>
RECORDING_DURATION == 60
DEFAULT_SAMPLE_RATE == 44100
DEFAULT_CHANNELS == 1
DEFAULT_CHUNK_SIZE == 2048
FORMAT == "paInt16"
DIR_TEMP_RECORDINGS == "temp_recordings"
OutOfWindowSleep == 300
BackoffSleep == 60

Config == [S3_BUCKET_NAME |-> "bucket", S3_OBJECT_KEY_PREFIX |-> "prefix/"]

\* config.keys(), in the order of the dict literal of lines 60-65
ConfigKeys ==
    <<"AWS_ACCESS_KEY_ID", "AWS_SECRET_ACCESS_KEY", "S3_BUCKET_NAME", "S3_OBJECT_KEY_PREFIX">>

\* The environment the main-loop model runs with: every Config key set
\* (<<v>> is the string v, <<>> is a variable that is not set)
LoadedEnviron ==
    [AWS_ACCESS_KEY_ID |-> <<"AKIA">>, AWS_SECRET_ACCESS_KEY |-> <<"secret">>,
     S3_BUCKET_NAME |-> <<Config.S3_BUCKET_NAME>>,
     S3_OBJECT_KEY_PREFIX |-> <<Config.S3_OBJECT_KEY_PREFIX>>]

----------------------------------------------------------------------------
(* Wall clock and its formatting *)

BaseDate == [year |-> 2024, month |-> 5, day |-> 1]

\* datetime.now() of an instant counted in half seconds since 00:00 of BaseDate
DateTimeOf(t) ==
    [year |-> BaseDate.year, month |-> BaseDate.month, day |-> BaseDate.day,
     hour |-> t \div 7200, minute |-> (t \div 120) % 60, second |-> (t \div 2) % 60,
     microsecond |-> (t % 2) * 500000]

\* datetime.time(): the time of day of a datetime
TimeOf(dt) == [hour |-> dt.hour, minute |-> dt.minute, second |-> dt.second,
               microsecond |-> dt.microsecond]

\* dt_time(hour, 0)
dt_time(h, m) == [hour |-> h, minute |-> m, second |-> 0, microsecond |-> 0]

\* datetime.time.__le__: lexicographic on (hour, minute, second, microsecond)
TimeLE(a, b) ==
    \/ a.hour < b.hour
    \/ a.hour = b.hour /\ a.minute < b.minute
    \/ a.hour = b.hour /\ a.minute = b.minute /\ a.second < b.second
    \/ a.hour = b.hour /\ a.minute = b.minute /\ a.second = b.second
       /\ a.microsecond <= b.microsecond

Pad2(n) == IF n < 10 THEN "0" \o ToString(n) ELSE ToString(n)

Pad4(n) == IF n < 10 THEN "000" \o ToString(n)
           ELSE IF n < 100 THEN "00" \o ToString(n)
           ELSE IF n < 1000 THEN "0" \o ToString(n)
           ELSE ToString(n)

Pad6(n) == IF n < 10 THEN "00000" \o ToString(n)
           ELSE IF n < 100 THEN "0000" \o ToString(n)
           ELSE IF n < 1000 THEN "000" \o ToString(n)
           ELSE IF n < 10000 THEN "00" \o ToString(n)
           ELSE IF n < 100000 THEN "0" \o ToString(n)
           ELSE ToString(n)

\* dt.strftime("%Y%m%d_%H%M%S")
Strftime(dt) ==
    Pad4(dt.year) \o Pad2(dt.month) \o Pad2(dt.day) \o "_"
    \o Pad2(dt.hour) \o Pad2(dt.minute) \o Pad2(dt.second)

\* dt.isoformat(): the microseconds are printed only when they are not zero
IsoFormat(dt) ==
    Pad4(dt.year) \o "-" \o Pad2(dt.month) \o "-" \o Pad2(dt.day) \o "T"
    \o Pad2(dt.hour) \o ":" \o Pad2(dt.minute) \o ":" \o Pad2(dt.second)
    \o (IF dt.microsecond = 0 THEN "" ELSE "." \o Pad6(dt.microsecond))

Min(a, b) == IF a <= b THEN a ELSE b
Max(a, b) == IF a >= b THEN a ELSE b

\* is_recording_time with the end of the window excluded (< for <=)
is_recording_time_EndExcluded(hours, nowTime) ==
    LET start_hour == Min(Max(hours[1], 0), 23)
        end_hour   == Min(Max(hours[2], 0), 23)
        start_time == dt_time(start_hour, 0)
        end_time   == dt_time(end_hour, 0)
    IN  TimeLE(start_time, nowTime) /\ TimeLE(nowTime, end_time) /\ nowTime # end_time

\* is_recording_time with a window that wraps past midnight when the start
\* hour is after the end hour
is_recording_time_Wraps(hours, nowTime) ==
    LET start_hour == Min(Max(hours[1], 0), 23)
        end_hour   == Min(Max(hours[2], 0), 23)
        start_time == dt_time(start_hour, 0)
        end_time   == dt_time(end_hour, 0)
    IN  IF start_hour > end_hour
        THEN TimeLE(start_time, nowTime) \/ TimeLE(nowTime, end_time)
        ELSE TimeLE(start_time, nowTime) /\ TimeLE(nowTime, end_time)

\* is_recording_time, with RECORDING_HOURS and the clock reading as parameters
is_recording_time(hours, nowTime) ==
    LET start_hour == Min(Max(hours[1], 0), 23)
        end_hour   == Min(Max(hours[2], 0), 23)
        start_time == dt_time(start_hour, 0)
        end_time   == dt_time(end_hour, 0)
    IN  TimeLE(start_time, nowTime) /\ TimeLE(nowTime, end_time)

\* The first clock reading of the model: 22:59:58.0, two seconds before the
\* end of the window of RECORDING_HOURS
FirstInstant == 23 * 7200 - 4

\* The clock readings of the model
Instants == FirstInstant .. FirstInstant + MaxElapsed

\* The readings datetime.now() may return after the reading t
Later(t) == {u \in Instants : u >= t}

----------------------------------------------------------------------------
(* Environment overrides and DeviceResolver *)

Digits == {"0", "1", "2", "3", "4", "5", "6", "7", "8", "9"}

DigitVal(c) == CHOOSE d \in 0 .. 9 : ToString(d) = c

\* str.strip(): leading and trailing blanks removed
RECURSIVE LStrip(_)
LStrip(s) == IF s # <<>> /\ Head(s) = " " THEN LStrip(Tail(s)) ELSE s

RECURSIVE RStrip(_)
RStrip(s) == IF s # <<>> /\ s[Len(s)] = " " THEN RStrip(SubSeq(s, 1, Len(s) - 1)) ELSE s

Strip(s) == RStrip(LStrip(s))

\* str.isdigit(), on the model's alphabet: non-empty and decimal digits only
IsDigit(s) == s # <<>> /\ \A k \in 1 .. Len(s) : s[k] \in Digits

\* the value of a non-empty sequence of decimal digits
RECURSIVE DigitsValue(_)
DigitsValue(s) ==
    IF s = <<>> THEN 0 ELSE 10 * DigitsValue(SubSeq(s, 1, Len(s) - 1)) + DigitVal(s[Len(s)])

\* int(value): <<n>>, or <<>> when int raises ValueError. Blanks around the
\* number and one leading sign are accepted.
IntParse(value) ==
    LET t    == Strip(value)
        sgn  == IF t # <<>> /\ t[1] = "-" THEN -1 ELSE 1
        body == IF t # <<>> /\ t[1] \in {"-", "+"} THEN Tail(t) ELSE t
    IN  IF IsDigit(body) THEN <<sgn * DigitsValue(body)>> ELSE <<>>

\* _int_from_env, given the value of os.getenv(name, "")
int_from_env(value, default) ==
    IF value = <<>> THEN default
    ELSE IF IntParse(value) = <<>> THEN default
    ELSE IntParse(value)[1]

\* What the audio host reports for one session: the default input device
\* (device_index: <<>> is None) and its get_device_info_by_index result.
DeviceOutcomes ==
    {[device_index |-> <<>>, infoRaises |-> FALSE, hasRate |-> FALSE,
      defaultSampleRate |-> 0],
     [device_index |-> <<0>>, infoRaises |-> TRUE, hasRate |-> FALSE,
      defaultSampleRate |-> 0],
     [device_index |-> <<0>>, infoRaises |-> FALSE, hasRate |-> FALSE,
      defaultSampleRate |-> 0],
     [device_index |-> <<0>>, infoRaises |-> FALSE, hasRate |-> TRUE,
      defaultSampleRate |-> 48000]}

\* the settings when what the device reports is preferred to the override
get_audio_settings_DevicePreferred(e, dev) ==
    [sample_rate  |-> IF dev.device_index # <<>> /\ ~dev.infoRaises /\ dev.hasRate
                      THEN dev.defaultSampleRate
                      ELSE IF IsDigit(Strip(e.AUDIO_SAMPLE_RATE))
                           THEN DigitsValue(Strip(e.AUDIO_SAMPLE_RATE))
                           ELSE DEFAULT_SAMPLE_RATE,
     channels     |-> int_from_env(e.AUDIO_CHANNELS, DEFAULT_CHANNELS),
     chunk_size   |-> int_from_env(e.AUDIO_CHUNK_SIZE, DEFAULT_CHUNK_SIZE),
     device_index |-> dev.device_index]

\* get_audio_settings
get_audio_settings(e, dev) ==
    LET sr_env == Strip(e.AUDIO_SAMPLE_RATE)
        sample_rate ==
            IF IsDigit(sr_env) THEN DigitsValue(sr_env)
            ELSE IF dev.device_index # <<>>
                 THEN IF dev.infoRaises THEN DEFAULT_SAMPLE_RATE
                      ELSE IF dev.hasRate THEN dev.defaultSampleRate
                      ELSE DEFAULT_SAMPLE_RATE
                 ELSE DEFAULT_SAMPLE_RATE
    IN  [sample_rate  |-> sample_rate,
         channels     |-> int_from_env(e.AUDIO_CHANNELS, DEFAULT_CHANNELS),
         chunk_size   |-> int_from_env(e.AUDIO_CHUNK_SIZE, DEFAULT_CHUNK_SIZE),
         device_index |-> dev.device_index]

\* The environments of the model: their chunk counts stay small.
EnvChoices ==
    {[AUDIO_SAMPLE_RATE |-> <<"7", "0">>, AUDIO_CHANNELS |-> <<>>,
      AUDIO_CHUNK_SIZE |-> <<>>],
     [AUDIO_SAMPLE_RATE |-> <<>>, AUDIO_CHANNELS |-> <<"2">>,
      AUDIO_CHUNK_SIZE |-> <<"2", "0", "9", "7", "1", "5", "2">>]}

\* The floats of line 154 are binary64: a significand of 53 bits and an
\* exponent. A positive float is kept as in float.hex(): the 13 hexadecimal
\* digits m after the leading 1 and the exponent e, for 0x1.m[1]..m[13]p+e.
\* Operations round to nearest, ties to even.
HexDigits == 13

RECURSIVE Pow2(_)
Pow2(n) == IF n = 0 THEN 1 ELSE 2 * Pow2(n - 1)

\* a / b scaled by powers of two into [1, 2): <<n, d, e>> with a / b = n / d * 2^e
RECURSIVE Normalise(_, _, _)
Normalise(a, b, e) ==
    IF a >= 2 * b THEN Normalise(a, 2 * b, e + 1)
    ELSE IF a < b THEN Normalise(2 * a, b, e - 1)
    ELSE <<a, b, e>>

\* the next n hexadecimal digits of the expansion of r / d, for r < d
RECURSIVE QuotientDigits(_, _, _)
QuotientDigits(r, d, n) ==
    IF n = 0 THEN <<>>
    ELSE <<(16 * r) \div d>> \o QuotientDigits((16 * r) % d, d, n - 1)

\* what is left of r / d after n digits of its expansion
RECURSIVE QuotientRest(_, _, _)
QuotientRest(r, d, n) == IF n = 0 THEN r ELSE QuotientRest((16 * r) % d, d, n - 1)

\* digits + 1 in the last place, one digit longer (a leading 1) when every
\* digit was 15
RECURSIVE Increment(_)
Increment(digits) ==
    IF digits = <<>> THEN <<1>>
    ELSE IF digits[Len(digits)] < 15
         THEN SubSeq(digits, 1, Len(digits) - 1) \o <<digits[Len(digits)] + 1>>
    ELSE Increment(SubSeq(digits, 1, Len(digits) - 1)) \o <<0>>

\* Round to nearest, ties to even: m are the kept digits, e their exponent
\* and half tells how the discarded part compares with half a unit in the
\* last place (-1 below, 0 equal, 1 above). Rounding 0x1.fffffffffffffp+e
\* up gives 0x1.0000000000000p+(e+1).
RoundNearestEven(m, e, half) ==
    IF half = 1 \/ (half = 0 /\ m[Len(m)] % 2 = 1)
    THEN IF \A j \in 1 .. Len(m) : m[j] = 15
         THEN [m |-> [j \in 1 .. Len(m) |-> 0], e |-> e + 1]
         ELSE [m |-> Increment(m), e |-> e]
    ELSE [m |-> m, e |-> e]

\* how the rest r of a division by d compares with half a unit in the last place
HalfOfRest(r, d) == IF 2 * r > d THEN 1 ELSE IF 2 * r = d THEN 0 ELSE -1

\* a / b of two positive ints (true division, correctly rounded). The
\* normalised operands are drawn from a singleton set, which gives them a
\* name and has them computed once.
float_div(a, b) ==
    CHOOSE x \in
        {RoundNearestEven(QuotientDigits(nde[1] - nde[2], nde[2], HexDigits), nde[3],
                          HalfOfRest(QuotientRest(nde[1] - nde[2], nde[2], HexDigits),
                                     nde[2])) :
            nde \in {Normalise(a, b, 0)}} : TRUE

\* the hexadecimal digits of n, most significant first (<<>> for 0)
RECURSIVE ToHex(_)
ToHex(n) == IF n = 0 THEN <<>> ELSE ToHex(n \div 16) \o <<n % 16>>

\* the hexadecimal digits of digits[1 .. i] * k + carry
RECURSIVE MulDigits(_, _, _, _)
MulDigits(digits, i, k, carry) ==
    IF i = 0 THEN ToHex(carry)
    ELSE MulDigits(digits, i - 1, k, (digits[i] * k + carry) \div 16)
             \o <<(digits[i] * k + carry) % 16>>

\* the number of bits of a hexadecimal digit that is not 0
BitLength(h) == IF h >= 8 THEN 4 ELSE IF h >= 4 THEN 3 ELSE IF h >= 2 THEN 2 ELSE 1

\* The float nearest to prod * 2^(e - 4 * HexDigits), for the digits prod of
\* an exact product (at least HexDigits + 1 of them, the first not 0)
RoundProduct(prod, e) ==
    LET n    == Len(prod)
        s    == BitLength(prod[1]) - 1
        \* prod shifted right by s bits: after its leading 1, the digits q
        q    == [j \in 1 .. n |->
                   IF j < n
                   THEN ((prod[j] % Pow2(s)) * 16 + prod[j + 1]) \div Pow2(s)
                   ELSE (prod[n] % Pow2(s)) * Pow2(4 - s)]
        kept == SubSeq(q, 1, HexDigits)
        cut  == SubSeq(q, HexDigits + 1, n)
        half == IF cut[1] > 8 THEN 1
                ELSE IF cut[1] < 8 THEN -1
                ELSE IF \E j \in 2 .. Len(cut) : cut[j] # 0 THEN 1 ELSE 0
    IN  RoundNearestEven(kept, e + 4 * (n - (HexDigits + 1)) + s, half)

\* x * k of a float and a positive int (exact as a float), correctly rounded
float_mul(x, k) ==
    CHOOSE y \in
        {RoundProduct(prod, x.e) : prod \in {MulDigits(<<1>> \o x.m, HexDigits + 1, k, 0)}} :
            TRUE

\* the number whose hexadecimal digits are digits
RECURSIVE HexValue(_)
HexValue(digits) ==
    IF digits = <<>> THEN 0
    ELSE 16 * HexValue(SubSeq(digits, 1, Len(digits) - 1)) + digits[Len(digits)]

\* int(x) of a positive float below 2^31: the digits left of the binary point
float_int(x) ==
    IF x.e < 0 THEN 0
    ELSE HexValue(<<1>> \o SubSeq(x.m, 1, x.e \div 4)) * Pow2(x.e % 4)
         + x.m[x.e \div 4 + 1] \div Pow2(4 - (x.e % 4))

\* the exact quotient rounded up
total_chunks_Ceiling(sample_rate, chunk_size, duration) ==
    (sample_rate * duration + chunk_size - 1) \div chunk_size

\* int(sample_rate / chunk_size * duration), for positive ints
total_chunks(sample_rate, chunk_size, duration) ==
    CHOOSE n \in
        {float_int(y) : y \in {float_mul(x, duration) :
                                  x \in {float_div(sample_rate, chunk_size)}}} : TRUE

\* p.get_sample_size(FORMAT)
get_sample_size(format) == IF format = "paInt16" THEN 2 ELSE 4

\* os.path.join(DIR_TEMP_RECORDINGS, name)
PathJoin(dir, name) == dir \o "/" \o name

----------------------------------------------------------------------------
(* State after construction: main has logged its start-up lines (221-234) *)

NoParams == [sample_rate |-> 0, channels |-> 0, chunk_size |-> 0, device_index |-> <<>>]

NoFiles == [f \in {} |-> <<>>]

\* The local variables of record_and_upload_session and record_audio go
\* away when the session returns or is unwound by an exception
DiscardSession ==
    /\ startedAt' = 0
    /\ filename' = ""
    /\ p' = "none" /\ stream' = "none" /\ params' = NoParams
    /\ total' = 0 /\ reads' = 0 /\ readErrors' = 0 /\ frames' = <<>>
    /\ recorded' = "none" /\ written' = <<>>

WindowIdle ==
    /\ wHours = RECORDING_HOURS
    /\ wNow = dt_time(0, 0)
    /\ wResult = "unprobed"

ResolverIdle ==
    /\ rEnv = [AUDIO_SAMPLE_RATE |-> <<>>, AUDIO_CHANNELS |-> <<>>, AUDIO_CHUNK_SIZE |-> <<>>]
    /\ rDev = [device_index |-> <<>>, infoRaises |-> FALSE, hasRate |-> FALSE,
               defaultSampleRate |-> 0]
    /\ rOut = <<>>

ChunkIdle ==
    /\ kIn = <<DEFAULT_SAMPLE_RATE, DEFAULT_CHUNK_SIZE, RECORDING_DURATION>>
    /\ kOut = <<>>

\* get_config has returned the four values of the environment
StartDone ==
    /\ environ = LoadedEnviron
    /\ config = [k \in DOMAIN LoadedEnviron |-> LoadedEnviron[k][1]]
    /\ cfgNext = Len(ConfigKeys) + 1

ProbeIdle == WindowIdle /\ ResolverIdle /\ ChunkIdle /\ StartDone

Init ==
    /\ pc = "test"
    /\ now \in Instants
    /\ env \in EnvChoices
    /\ lastLog = "Recording duration per session"
    /\ sleepSecs = 0
    /\ sessions = 0
    /\ startedAt = 0
    /\ filename = ""
    /\ p = "none" /\ stream = "none" /\ params = NoParams
    /\ total = 0 /\ reads = 0 /\ readErrors = 0 /\ frames = <<>>
    /\ recorded = "none" /\ written = <<>>
    /\ files = NoFiles
    /\ uploads = <<>>
    /\ paLive = 0 /\ streamsOpen = 0
    /\ ProbeIdle

----------------------------------------------------------------------------
(* main: the supervising loop *)

\* an iteration that starts a session whatever the window test says
WindowTest_IgnoresWindow ==
    /\ pc = "test"
    /\ \E t \in Later(now) : now' = t
    /\ sessions < MaxSessions
    /\ lastLog' = "Starting recording session..."
    /\ sleepSecs' = 0
    /\ pc' = "session"
    /\ UNCHANGED <<env, sessions, sessVars, diskVars, leakVars, probeVars>>

\* main, lines 238-247: the window test and its two branches up to the call
\* of record_and_upload_session or of time.sleep(300)
WindowTest ==
    /\ pc = "test"
    /\ \E t \in Later(now) :
        /\ now' = t
        /\ IF is_recording_time(RECORDING_HOURS, TimeOf(DateTimeOf(t)))
           THEN /\ sessions < MaxSessions   \* the model runs MaxSessions sessions
                /\ lastLog' = "Starting recording session..."
                /\ sleepSecs' = 0
                /\ pc' = "session"
           ELSE /\ lastLog' = "Outside recording hours, sleeping..."
                /\ sleepSecs' = OutOfWindowSleep
                /\ pc' = "sleep_out"
    /\ UNCHANGED <<env, sessions, sessVars, diskVars, leakVars, probeVars>>

\* main, line 247: time.sleep(300) returns
OutOfWindowWake ==
    /\ pc = "sleep_out"
    /\ sleepSecs' = 0
    /\ pc' = "test"
    /\ UNCHANGED <<now, env, lastLog, sessions, sessVars, diskVars, leakVars,
                   probeVars>>

\* the handler without its back-off: the loop goes round at once
SupervisorCatch_NoBackoff ==
    /\ pc = "handler"
    /\ lastLog' = "[ERROR] Unexpected error"
    /\ sleepSecs' = 0
    /\ pc' = "test"
    /\ UNCHANGED <<now, env, sessions, sessVars, diskVars, leakVars, probeVars>>

\* main, lines 252-253: except Exception, up to the call of time.sleep(60)
SupervisorCatch ==
    /\ pc = "handler"
    /\ lastLog' = "[ERROR] Unexpected error"
    /\ sleepSecs' = BackoffSleep
    /\ pc' = "backoff"
    /\ UNCHANGED <<now, env, sessions, sessVars, diskVars, leakVars, probeVars>>

\* main, line 254: time.sleep(60) returns and the loop goes round
BackoffWake ==
    /\ pc = "backoff"
    /\ sleepSecs' = 0
    /\ pc' = "test"
    /\ UNCHANGED <<now, env, lastLog, sessions, sessVars, diskVars, leakVars,
                   probeVars>>

\* The positions inside the try body of main (lines 238-247), the calls made
\* from it included
TryBody == {"test", "sleep_out", "session", "pa_init", "settings", "open", "read",
            "encode", "check", "upload", "remove"}

\* The positions inside the except Exception handler of main (lines 253-254)
ExceptBody == {"handler", "backoff"}

\* A KeyboardInterrupt is raised in the main thread. No except Exception
\* clause catches it (it is a BaseException). Raised in the try body it
\* reaches except KeyboardInterrupt (249-251): log and break. Raised in the
\* except Exception handler it is not handled by the sibling clause and
\* leaves main as an uncaught exception. Either way the frames of the
\* session in progress are unwound and its local variables are gone.
KeyboardInterrupt ==
    /\ pc \in TryBody \cup ExceptBody
    /\ IF pc \in TryBody
       THEN /\ lastLog' = "Recording stopped by user"
            /\ pc' = "stopped"
       ELSE /\ lastLog' = lastLog
            /\ pc' = "crashed"
    /\ sleepSecs' = 0
    /\ DiscardSession
    /\ UNCHANGED <<now, env, sessions, diskVars, leakVars, probeVars>>

----------------------------------------------------------------------------
(* record_and_upload_session *)

\* lines 206-207: the session's timestamp and filename
SessionStart ==
    /\ pc = "session"
    /\ \E t \in Later(now) :
        /\ now' = t
        /\ startedAt' = t
        /\ filename' = "recording_" \o Strftime(DateTimeOf(t)) \o ".wav"
    /\ sessions' = sessions + 1
    /\ UNCHANGED <<p, stream, params, total, reads, readErrors, frames, recorded,
                   written>>
    /\ pc' = "pa_init"
    /\ UNCHANGED <<env, lastLog, sleepSecs, diskVars, leakVars, probeVars>>

\* line 209: p = pyaudio.PyAudio(); an exception here is caught by no one
\* below main
PyAudioInit ==
    /\ pc = "pa_init"
    /\ \/ /\ p' = "live"
          /\ paLive' = paLive + 1
          /\ pc' = "settings"
          /\ UNCHANGED <<startedAt, filename, stream, params, total, reads, readErrors,
                         frames, recorded, written>>
       \/ /\ DiscardSession
          /\ UNCHANGED paLive
          /\ pc' = "handler"
    /\ UNCHANGED <<now, env, lastLog, sleepSecs, sessions, diskVars, streamsOpen,
                   probeVars>>

\* resolution that gives up when there is no default input device
ResolveSettings_NeedsDevice ==
    /\ pc = "settings"
    /\ \E dev \in DeviceOutcomes :
         IF dev.device_index = <<>>
         THEN /\ pc' = "handler"
              /\ lastLog' = lastLog
              /\ params' = params
         ELSE /\ params' = get_audio_settings(env, dev)
              /\ lastLog' = "Microphone config"
              /\ pc' = "open"
    /\ UNCHANGED <<now, env, sleepSecs, sessions, startedAt, filename, p, stream,
                   total, reads, readErrors, frames, recorded, written, diskVars,
                   leakVars, probeVars>>

\* lines 210-213: sample_rate, channels, chunk_size, device_index
ResolveSettings ==
    /\ pc = "settings"
    /\ \E dev \in DeviceOutcomes : params' = get_audio_settings(env, dev)
    /\ lastLog' = "Microphone config"
    /\ pc' = "open"
    /\ UNCHANGED <<now, env, sleepSecs, sessions, startedAt, filename, p, stream,
                   total, reads, readErrors, frames, recorded, written, diskVars,
                   leakVars, probeVars>>

\* a session whose recording failed is tried again instead of given up
CheckResult_RetriesFailed ==
    /\ pc = "check"
    /\ IF recorded = "True"
       THEN /\ pc' = "upload"
            /\ UNCHANGED <<lastLog, sessVars>>
       ELSE /\ lastLog' = "Recording session failed, skipping upload"
            /\ pc' = "open"
            /\ recorded' = "none"
            /\ UNCHANGED <<startedAt, filename, p, stream, params, total, reads,
                           readErrors, frames, written>>
    /\ UNCHANGED <<now, env, sleepSecs, sessions, diskVars, leakVars, probeVars>>

\* the branch taken whatever record_audio returned
CheckResult_AlwaysUploads ==
    /\ pc = "check"
    /\ pc' = "upload"
    /\ UNCHANGED <<now, env, lastLog, sleepSecs, sessions, sessVars, diskVars,
                   leakVars, probeVars>>

\* lines 215-219: the branch on record_audio's result
CheckResult ==
    /\ pc = "check"
    /\ IF recorded = "True"
       THEN /\ pc' = "upload"
            /\ UNCHANGED <<lastLog, sessVars>>
       ELSE /\ lastLog' = "Recording session failed, skipping upload"
            /\ pc' = "test"
            /\ DiscardSession
    /\ UNCHANGED <<now, env, sleepSecs, sessions, diskVars, leakVars, probeVars>>

----------------------------------------------------------------------------
(* record_audio *)

\* lines 132-154: the stream is opened and the loop is set up, or p.open
\* raises and the handler of lines 179-181 returns False
OpenStream ==
    /\ pc = "open"
    /\ \/ /\ stream' = "open"
          /\ streamsOpen' = streamsOpen + 1
          /\ lastLog' = "Starting recording"
          /\ frames' = <<>>
          /\ total' = total_chunks(params.sample_rate, params.chunk_size,
                                   RECORDING_DURATION)
          /\ reads' = 0 /\ readErrors' = 0
          /\ pc' = "read"
          /\ UNCHANGED recorded
       \/ /\ lastLog' = "[ERROR] Recording failed"
          /\ recorded' = "False"
          /\ pc' = "check"
          /\ UNCHANGED <<stream, streamsOpen, frames, total, reads, readErrors>>
    /\ UNCHANGED <<now, env, sleepSecs, sessions, startedAt, filename, p, params,
                   written, diskVars, paLive, probeVars>>

\* the read loop without its inner try: a read error reaches the handler
\* of lines 179-181
ReadChunk_AbortsOnError ==
    /\ pc = "read"
    /\ reads < total
    /\ \/ /\ \E t \in Later(now) : t >= now + 2 /\ now' = t
          /\ frames' = Append(frames, <<sessions, reads>>)
          /\ UNCHANGED <<readErrors, lastLog, recorded, pc>>
       \/ /\ readErrors' = readErrors + 1
          /\ lastLog' = "[ERROR] Recording failed"
          /\ recorded' = "False"
          /\ pc' = "check"
          /\ UNCHANGED <<frames, now>>
    /\ reads' = reads + 1
    /\ UNCHANGED <<env, sleepSecs, sessions, startedAt, filename, p, stream, params,
                   total, written, diskVars, leakVars, probeVars>>

\* lines 155-161: one iteration of the read loop; a chunk is the session
\* and the iteration that read it. A read that succeeds has blocked until
\* chunk_size frames were captured, which for the chunk sizes and rates of
\* EnvChoices is well over a second (two clock units); a read that raises
\* may return at once.
ReadChunk ==
    /\ pc = "read"
    /\ reads < total
    /\ \/ /\ \E t \in Later(now) : t >= now + 2 /\ now' = t
          /\ frames' = Append(frames, <<sessions, reads>>)
          /\ UNCHANGED <<readErrors, lastLog>>
       \/ /\ readErrors' = readErrors + 1
          /\ lastLog' = "[WARN] stream.read issue (continuing)"
          /\ UNCHANGED <<frames, now>>
    /\ reads' = reads + 1
    /\ UNCHANGED <<pc, env, sleepSecs, sessions, startedAt, filename, p, stream,
                   params, total, recorded, written, diskVars, leakVars, probeVars>>

\* lines 164-166 after the loop: stop_stream, close, terminate; or
\* stop_stream raises and the handler of lines 179-181 returns False
StopAndClose ==
    /\ pc = "read"
    /\ reads = total
    /\ \/ /\ stream' = "closed"
          /\ p' = "terminated"
          /\ streamsOpen' = streamsOpen - 1
          /\ paLive' = paLive - 1
          /\ pc' = "encode"
          /\ UNCHANGED <<lastLog, recorded>>
       \/ /\ lastLog' = "[ERROR] Recording failed"
          /\ recorded' = "False"
          /\ pc' = "check"
          /\ UNCHANGED <<stream, p, streamsOpen, paLive>>
    /\ UNCHANGED <<now, env, sleepSecs, sessions, startedAt, filename, params, total,
                   reads, readErrors, frames, written, diskVars, probeVars>>

\* The container that lines 170-174 write
Container(ps, fs) ==
    [nchannels |-> ps.channels, sampwidth |-> get_sample_size(FORMAT),
     framerate |-> ps.sample_rate, frames |-> fs, complete |-> TRUE]

\* What a failed write leaves at the path once wave.open has created the
\* file: a truncated container, of which the model keeps no frame
Truncated(ps, fs) ==
    [nchannels |-> ps.channels, sampwidth |-> get_sample_size(FORMAT),
     framerate |-> ps.sample_rate, frames |-> <<>>, complete |-> FALSE]

\* the directory with the file at path (over)written
WriteFile(fsys, path, content) == (path :> content) @@ fsys

\* os.remove leaving the file in place
RemoveFile_Keeps(fsys, path) == fsys

\* the directory without the file at path
RemoveFile(fsys, path) == [q \in DOMAIN fsys \ {path} |-> fsys[q]]

\* lines 168-181: the container is written and True returned; or the write
\* raises, before or after the file was created, and False is returned
Encode ==
    /\ pc = "encode"
    /\ LET output_path == PathJoin(DIR_TEMP_RECORDINGS, filename) IN
       \/ /\ files' = WriteFile(files, output_path, Container(params, frames))
          /\ written' = <<Container(params, frames)>>
          /\ lastLog' = "Recording completed"
          /\ recorded' = "True"
       \/ /\ \/ UNCHANGED files
             \/ files' = WriteFile(files, output_path, Truncated(params, frames))
          /\ lastLog' = "[ERROR] Recording failed"
          /\ recorded' = "False"
          /\ UNCHANGED written
    /\ pc' = "check"
    /\ UNCHANGED <<now, env, sleepSecs, sessions, startedAt, filename, p, stream,
                   params, total, reads, readErrors, frames, uploads, leakVars,
                   probeVars>>

----------------------------------------------------------------------------
(* upload_to_s3 *)

\* the object key without the separator before the file name
s3_key_NoSlash(prefix, created_at, file_name) == prefix \o created_at \o file_name

\* line 187: the object key
s3_key(prefix, created_at, file_name) == prefix \o created_at \o "/" \o file_name

\* upload_to_s3 without its try: a failed upload reaches main
Upload_FailurePropagates ==
    /\ pc = "upload"
    /\ \E t \in Later(now), ok \in BOOLEAN :
        LET file_path  == PathJoin(DIR_TEMP_RECORDINGS, filename)
            created_at == IsoFormat(DateTimeOf(t))
        IN  /\ now' = t
            /\ uploads' = Append(uploads,
                    [session  |-> sessions,
                     started  |-> startedAt,
                     at       |-> t,
                     Filename |-> file_path,
                     Bucket   |-> Config.S3_BUCKET_NAME,
                     Key      |-> s3_key(Config.S3_OBJECT_KEY_PREFIX, created_at, filename),
                     ok       |-> ok])
            /\ ok => file_path \in DOMAIN files
            /\ IF ok
               THEN /\ lastLog' = "File uploaded successfully!"
                    /\ pc' = "remove"
                    /\ UNCHANGED sessVars
               ELSE /\ UNCHANGED lastLog
                    /\ pc' = "handler"
                    /\ DiscardSession
    /\ UNCHANGED <<env, sleepSecs, sessions, files, leakVars, probeVars>>

\* lines 185-195 and 201-202: the key is built and client.upload_file
\* called; when it raises (as it does when the file is missing) the error is
\* logged and the function returns
Upload ==
    /\ pc = "upload"
    /\ \E t \in Later(now), ok \in BOOLEAN :
        LET file_path  == PathJoin(DIR_TEMP_RECORDINGS, filename)
            created_at == IsoFormat(DateTimeOf(t))
        IN  /\ now' = t
            /\ uploads' = Append(uploads,
                    [session  |-> sessions,
                     started  |-> startedAt,
                     at       |-> t,
                     Filename |-> file_path,
                     Bucket   |-> Config.S3_BUCKET_NAME,
                     Key      |-> s3_key(Config.S3_OBJECT_KEY_PREFIX, created_at, filename),
                     ok       |-> ok])
            /\ ok => file_path \in DOMAIN files
            /\ IF ok
               THEN /\ lastLog' = "File uploaded successfully!"
                    /\ pc' = "remove"
                    /\ UNCHANGED sessVars
               ELSE /\ lastLog' = "[ERROR] Upload failed"
                    /\ pc' = "test"
                    /\ DiscardSession
    /\ UNCHANGED <<env, sleepSecs, sessions, files, leakVars, probeVars>>

\* lines 198-199: the local file is removed after a successful upload, and
\* the session returns to main
RemoveLocal ==
    /\ pc = "remove"
    /\ files' = RemoveFile(files, PathJoin(DIR_TEMP_RECORDINGS, filename))
    /\ lastLog' = "Local file removed"
    /\ pc' = "test"
    /\ DiscardSession
    /\ UNCHANGED <<now, env, sleepSecs, sessions, uploads, leakVars, probeVars>>

----------------------------------------------------------------------------
(* The program *)

Next ==
    \/ WindowTest
    \/ OutOfWindowWake
    \/ SessionStart
    \/ PyAudioInit
    \/ ResolveSettings
    \/ OpenStream
    \/ ReadChunk
    \/ StopAndClose
    \/ Encode
    \/ CheckResult
    \/ Upload
    \/ RemoveLocal
    \/ SupervisorCatch
    \/ BackoffWake
    \/ KeyboardInterrupt

Spec == Init /\ [][Next]_vars

\* The main loop when no KeyboardInterrupt arrives and every call returns:
\* the main thread always takes its next step
NextNoCancel ==
    \/ WindowTest
    \/ OutOfWindowWake
    \/ SessionStart
    \/ PyAudioInit
    \/ ResolveSettings
    \/ OpenStream
    \/ ReadChunk
    \/ StopAndClose
    \/ Encode
    \/ CheckResult
    \/ Upload
    \/ RemoveLocal
    \/ SupervisorCatch
    \/ BackoffWake

SpecLive == Init /\ [][NextNoCancel]_vars /\ WF_vars(NextNoCancel)

----------------------------------------------------------------------------
(* The window test on its own: is_recording_time applied to configured *)
(* hours and clock readings drawn from bounded sets                    *)

ProbeHours == {-1, 0, 9, 18, 23, 24}

ProbeTimes ==
    [hour : {0, 8, 9, 17, 18, 23}, minute : {0, 1, 59}, second : {0, 30, 59},
     microsecond : {0, 1, 999999}]

InitWindow ==
    /\ pc = "probe"
    /\ now = FirstInstant
    /\ env \in EnvChoices
    /\ lastLog = "Recording duration per session"
    /\ sleepSecs = 0
    /\ sessions = 0
    /\ startedAt = 0
    /\ filename = ""
    /\ p = "none" /\ stream = "none" /\ params = NoParams
    /\ total = 0 /\ reads = 0 /\ readErrors = 0 /\ frames = <<>>
    /\ recorded = "none" /\ written = <<>>
    /\ files = NoFiles
    /\ uploads = <<>>
    /\ paLive = 0 /\ streamsOpen = 0
    /\ wHours \in ProbeHours \X ProbeHours
    /\ wNow \in ProbeTimes
    /\ wResult = "unprobed"
    /\ ResolverIdle /\ ChunkIdle /\ StartDone

\* is_recording_time is called with the clock reading wNow
ProbeWindow ==
    /\ pc = "probe"
    /\ wResult = "unprobed"
    /\ wResult' = IF is_recording_time(wHours, wNow) THEN "InWindow" ELSE "OutOfWindow"
    /\ UNCHANGED <<pc, now, env, lastLog, sleepSecs, sessions, sessVars, diskVars,
                   leakVars, wHours, wNow, resolverVars, chunkVars, startVars>>

NextWindow == ProbeWindow

SpecWindow == InitWindow /\ [][NextWindow]_vars

----------------------------------------------------------------------------
(* The main thread before any session, with nothing on disk *)

LoopIdle ==
    /\ now = FirstInstant
    /\ env = [AUDIO_SAMPLE_RATE |-> <<>>, AUDIO_CHANNELS |-> <<>>, AUDIO_CHUNK_SIZE |-> <<>>]
    /\ sleepSecs = 0
    /\ sessions = 0
    /\ startedAt = 0
    /\ filename = ""
    /\ p = "none" /\ stream = "none" /\ params = NoParams
    /\ total = 0 /\ reads = 0 /\ readErrors = 0 /\ frames = <<>>
    /\ recorded = "none" /\ written = <<>>
    /\ files = NoFiles
    /\ uploads = <<>>
    /\ paLive = 0 /\ streamsOpen = 0

----------------------------------------------------------------------------
(* Start-up: main from its first line to the first iteration of the loop, *)
(* for environments in which each Config key is not set, empty or set     *)

EnvironChoices ==
    {e \in [DOMAIN LoadedEnviron -> {<<>>, <<"">>} \cup
                {LoadedEnviron[k] : k \in DOMAIN LoadedEnviron}] :
        \A k \in DOMAIN LoadedEnviron : e[k] \in {<<>>, <<"">>, LoadedEnviron[k]}}

\* main has logged its first line (223) and get_config has built its dict
InitStartup ==
    /\ pc = "get_config"
    /\ lastLog = "Pi Audio Recorder started!"
    /\ LoopIdle
    /\ WindowIdle /\ ResolverIdle /\ ChunkIdle
    /\ environ \in EnvironChoices
    /\ config = [k \in DOMAIN LoadedEnviron |-> ""]
    /\ cfgNext = 1

\* get_config, lines 67-73: one iteration of the loop over config.keys().
\* For a variable that is not set, value is None and the concatenation of
\* line 69 raises TypeError before the test of line 70: the exception
\* leaves get_config and main, and nothing is logged.
GetConfigVar ==
    /\ pc = "get_config"
    /\ cfgNext <= Len(ConfigKeys)
    /\ IF environ[ConfigKeys[cfgNext]] = <<>>
       THEN /\ pc' = "crashed"
            /\ UNCHANGED <<config, cfgNext>>
       ELSE /\ config' = [config EXCEPT ![ConfigKeys[cfgNext]] =
                                            environ[ConfigKeys[cfgNext]][1]]
            /\ cfgNext' = cfgNext + 1
            /\ pc' = pc
    /\ UNCHANGED <<now, env, lastLog, sleepSecs, sessions, sessVars, diskVars,
                   leakVars, windowVars, resolverVars, chunkVars, environ>>

\* get_config, lines 75-76: the loop is over, the dict is returned
GetConfigReturn ==
    /\ pc = "get_config"
    /\ cfgNext = Len(ConfigKeys) + 1
    /\ lastLog' = "Configuration loaded. S3 Bucket: " \o config.S3_BUCKET_NAME
    /\ pc' = "client"
    /\ UNCHANGED <<now, env, sleepSecs, sessions, sessVars, diskVars, leakVars,
                   windowVars, resolverVars, chunkVars, startVars>>

\* main, lines 227-236: the client is built from the two keys, two lines
\* are logged and the loop is entered
EnterLoop ==
    /\ pc = "client"
    /\ lastLog' = "Recording duration per session"
    /\ pc' = "test"
    /\ UNCHANGED <<now, env, sleepSecs, sessions, sessVars, diskVars, leakVars,
                   windowVars, resolverVars, chunkVars, startVars>>

NextStartup ==
    \/ GetConfigVar
    \/ GetConfigReturn
    \/ EnterLoop

SpecStartup == InitStartup /\ [][NextStartup]_vars

----------------------------------------------------------------------------
(* Parameter resolution on its own: get_audio_settings applied to       *)
(* overrides and device reports drawn from bounded sets                 *)

\* values of an AUDIO_* variable (<<>>: not set, or set to the empty string)
OverrideChoices ==
    {<<>>, <<"7", "0">>, <<" ", "8", " ">>, <<"+", "5">>, <<"-", "3">>, <<"x">>}

InitResolver ==
    /\ pc = "resolve"
    /\ lastLog = "Recording duration per session"
    /\ LoopIdle
    /\ WindowIdle /\ ChunkIdle /\ StartDone
    /\ rEnv \in [AUDIO_SAMPLE_RATE : OverrideChoices, AUDIO_CHANNELS : OverrideChoices,
                  AUDIO_CHUNK_SIZE : OverrideChoices]
    /\ rDev \in DeviceOutcomes
    /\ rOut = <<>>

\* get_audio_settings is called with the environment rEnv on the host rDev
ProbeResolver ==
    /\ pc = "resolve"
    /\ rOut = <<>>
    /\ rOut' = <<get_audio_settings(rEnv, rDev)>>
    /\ UNCHANGED <<pc, now, env, lastLog, sleepSecs, sessions, sessVars, diskVars,
                   leakVars, windowVars, rEnv, rDev, chunkVars, startVars>>

NextResolver == ProbeResolver

SpecResolver == InitResolver /\ [][NextResolver]_vars

----------------------------------------------------------------------------
(* The chunk count on its own: line 154 applied to sample rates, chunk *)
(* sizes and durations drawn from bounded sets                         *)

ProbeSampleRates == {8000, 16000, 22050, 44100, 48000}

ProbeChunkSizes == {256, 512, 675, 1024, 1350, 2048, 4096}

ProbeDurations == {1, 10, 30, 60}

InitChunks ==
    /\ pc = "count"
    /\ lastLog = "Recording duration per session"
    /\ LoopIdle
    /\ WindowIdle /\ ResolverIdle /\ StartDone
    /\ kIn \in ProbeSampleRates \X ProbeChunkSizes \X ProbeDurations
    /\ kOut = <<>>

\* line 154 is executed with the parameters kIn
ProbeChunks ==
    /\ pc = "count"
    /\ kOut = <<>>
    /\ kOut' = <<total_chunks(kIn[1], kIn[2], kIn[3])>>
    /\ UNCHANGED <<pc, now, env, lastLog, sleepSecs, sessions, sessVars, diskVars,
                   leakVars, windowVars, resolverVars, kIn, startVars>>

NextChunks == ProbeChunks

SpecChunks == InitChunks /\ [][NextChunks]_vars

----------------------------------------------------------------------------
(* Claims *)

\* the positions at which main has left its loop
Exited == {"stopped", "crashed"}

\* the last client.upload_file call
LastUpload(us) == us[Len(us)]

\* C1: whenever record_audio has returned, with True or with False, the
\* stream it opened (if any) is closed and the session's PyAudio instance
\* is terminated.
C1_ReleasedOnReturn ==
    pc = "check" => (stream \in {"none", "closed"} /\ p = "terminated")

\* C2: when upload_to_s3 returns, the artifact is gone if the upload
\* succeeded and is still there, with the content the encoder wrote, if it
\* failed; and no step removes a file unless the upload of that file by the
\* running session has succeeded.
C2_RetainedUnlessUploaded ==
    [][/\ (pc \in {"upload", "remove"} /\ pc' = "test") =>
            LET file_path == PathJoin(DIR_TEMP_RECORDINGS, filename) IN
            /\ uploads' # <<>>
            /\ LastUpload(uploads').session = sessions
            /\ LastUpload(uploads').ok => file_path \notin DOMAIN files'
            /\ ~LastUpload(uploads').ok =>
                    /\ file_path \in DOMAIN files'
                    /\ files'[file_path] = written[1]
       /\ \A q \in DOMAIN files \ DOMAIN files' :
            /\ uploads # <<>>
            /\ LastUpload(uploads).Filename = q
            /\ LastUpload(uploads).session = sessions
            /\ LastUpload(uploads).ok
      ]_vars

\* C2 witness: one artifact was uploaded and is gone, another one failed to
\* upload and is retained
C2_Witness ==
    /\ pc = "test"
    /\ \E i, j \in DOMAIN uploads :
        /\ uploads[i].ok /\ uploads[i].Filename \notin DOMAIN files
        /\ ~uploads[j].ok /\ uploads[j].Filename \in DOMAIN files

\* C3: with N of the total_chunks reads raising, the read loop runs to its
\* end, the buffer holds total_chunks - N chunks when it is encoded, the
\* container written holds as many, record_audio returns True and the
\* session goes on to the upload; no read error ends the session.
C3_ReadErrorsTolerated ==
    /\ [][(pc = "read" /\ reads < total /\ pc' # "stopped") =>
            (pc' = "read" /\ reads' = reads + 1 /\ recorded' = "none")]_vars
    /\ [](pc = "read" => Len(frames) = reads - readErrors)
    /\ [](pc = "encode" => Len(frames) = total - readErrors)
    /\ [](written # <<>> =>
            /\ Len(written[1].frames) = total - readErrors
            /\ recorded = "True")
    /\ [][(pc = "check" /\ recorded = "True" /\ pc' # "stopped") => pc' = "upload"]_vars

\* C3 witness: one of two reads failed and the session is at its upload
\* with a container of one chunk
C3_Witness ==
    /\ pc = "upload"
    /\ total = 2 /\ readErrors = 1
    /\ Len(written[1].frames) = 1

\* C4: an exception that reaches main is logged by the supervisor, which
\* then sleeps 60 seconds and goes back to the window test; and main leaves
\* its loop only by a KeyboardInterrupt, never by an error.
C4_SupervisorIsolates ==
    /\ [][(pc = "handler" /\ pc' \notin {"handler", "crashed"}) =>
            /\ pc' = "backoff"
            /\ lastLog' = "[ERROR] Unexpected error"
            /\ sleepSecs' = 60]_vars
    /\ [][(pc = "backoff" /\ pc' \notin {"backoff", "crashed"}) => pc' = "test"]_vars
    /\ [][(pc \notin Exited /\ pc' \in Exited) => KeyboardInterrupt]_vars

\* C4 witness: the loop is back at the window test after the supervisor
\* handled an error
C4_Witness ==
    /\ pc = "test"
    /\ lastLog = "[ERROR] Unexpected error"

\* C5: whenever main has left its loop it has done so by the clean stop:
\* the stop is logged and no exception is left uncaught.
C5_CleanStopEverywhere ==
    pc \in Exited => (pc = "stopped" /\ lastLog = "Recording stopped by user")

Clamp(h) == Min(Max(h, 0), 23)

\* C6 as stated: for a window with startHour <= endHour the probe is
\* InWindow exactly when the reading's hour:minute lies from startHour:00 to
\* endHour:00 inclusive, whatever its seconds and microseconds.
C6_InclusiveToTheMinute ==
    (wResult # "unprobed" /\ Clamp(wHours[1]) <= Clamp(wHours[2])) =>
        (wResult = "InWindow" <=>
            /\ Clamp(wHours[1]) * 60 <= wNow.hour * 60 + wNow.minute
            /\ wNow.hour * 60 + wNow.minute <= Clamp(wHours[2]) * 60)

\* C6 amended: for a window with startHour <= endHour the probe is InWindow
\* exactly when startHour <= hour < endHour, or the reading is the instant
\* endHour:00:00.000000 itself; every later reading of the minute endHour:00
\* is OutOfWindow.
C6_InclusiveToTheInstant ==
    (wResult # "unprobed" /\ Clamp(wHours[1]) <= Clamp(wHours[2])) =>
        (wResult = "InWindow" <=>
            \/ Clamp(wHours[1]) <= wNow.hour /\ wNow.hour < Clamp(wHours[2])
            \/ /\ wNow.hour = Clamp(wHours[2])
               /\ wNow.minute = 0 /\ wNow.second = 0 /\ wNow.microsecond = 0)

\* C6 witness: window [9,18] probed at 18:00:00.000000 is InWindow
C6_Witness ==
    /\ wHours = <<9, 18>>
    /\ wNow = dt_time(18, 0)
    /\ wResult = "InWindow"

\* C7: an upload is attempted only by a session whose record_audio returned
\* True after writing its container; a session whose record_audio returned
\* False logs the failure, makes no upload call and returns to the loop,
\* which goes on with the window test.
C7_UploadOnlyAfterSuccess ==
    /\ [](pc \in {"upload", "remove"} =>
            /\ recorded = "True"
            /\ written # <<>>
            /\ stream = "closed")
    /\ [][uploads' # uploads => (recorded = "True" /\ written # <<>>)]_vars
    /\ [][(pc = "check" /\ recorded = "False" /\ pc' # "stopped") =>
            /\ pc' = "test"
            /\ lastLog' = "Recording session failed, skipping upload"
            /\ uploads' = uploads
            /\ \A i \in DOMAIN uploads : uploads[i].session # sessions]_vars

\* C7 witness: the first session failed, made no upload and the loop is
\* back at the window test
C7_Witness ==
    /\ pc = "test"
    /\ sessions = 1
    /\ lastLog = "Recording session failed, skipping upload"
    /\ uploads = <<>>

\* C8: no two upload calls are made by the same session or for the same
\* artifact file, and a file retained by a failed upload is still in the
\* directory.
C8_EachArtifactUploadedOnce ==
    /\ \A i, j \in DOMAIN uploads :
        i # j => /\ uploads[i].session # uploads[j].session
                 /\ uploads[i].Filename # uploads[j].Filename
    /\ \A i \in DOMAIN uploads :
        ~uploads[i].ok => uploads[i].Filename \in DOMAIN files

\* C9: a failed upload is logged inside upload_to_s3, which returns; the
\* loop goes on with the window test without any back-off, and the
\* supervisor's handler is entered only from the PyAudio construction.
C9_UploadFailureAbsorbed ==
    /\ [][(pc = "upload" /\ uploads' # uploads /\ ~LastUpload(uploads').ok) =>
            /\ pc' = "test"
            /\ lastLog' = "[ERROR] Upload failed"
            /\ sleepSecs' = 0]_vars
    /\ [][(pc # "handler" /\ pc' = "handler") => pc = "pa_init"]_vars

\* C9 witness: the loop is at the window test right after a failed upload
C9_Witness ==
    /\ pc = "test"
    /\ lastLog = "[ERROR] Upload failed"
    /\ ~LastUpload(uploads).ok

ExactFloor(sample_rate, chunk_size, duration) == (sample_rate * duration) \div chunk_size

\* C13: for every positive sample rate, chunk size and duration of the
\* probe, the number of iterations of the read loop (and so, when every
\* read succeeds, the number of chunks encoded) is the floor of the exact
\* value of sampleRate / chunkSize * duration.
C13_CountIsExactFloor ==
    kOut # <<>> => kOut[1] = ExactFloor(kIn[1], kIn[2], kIn[3])

\* C14 as written: with the default sample rate, the default chunk size and
\* a duration of 60 s, the chunk count is 1292.
C14_DefaultCountIs1292 ==
    (kOut # <<>> /\ kIn = <<DEFAULT_SAMPLE_RATE, DEFAULT_CHUNK_SIZE, RECORDING_DURATION>>)
        => kOut[1] = 1292

\* C14: with the default sample rate (44100), the default chunk size (2048)
\* and a duration of 60 s, the chunk count is 1291: 44100 / 2048 * 60 is
\* 1291.9921875, which int() truncates.
C14_DefaultCountIs1291 ==
    (kOut # <<>> /\ kIn = <<DEFAULT_SAMPLE_RATE, DEFAULT_CHUNK_SIZE, RECORDING_DURATION>>)
        => kOut[1] = 1291

C14_Witness ==
    /\ kIn = <<44100, 2048, 60>>
    /\ kOut = <<1291>>

\* what the host reports as the default sample rate, or else the fallback
DeviceTier(dev) ==
    IF dev.device_index # <<>> /\ ~dev.infoRaises /\ dev.hasRate
    THEN dev.defaultSampleRate
    ELSE 44100

\* an override that is a number: digits, with or without a sign
Numeric(value) == IntParse(value) # <<>>

\* an override that is a number without a sign
Unsigned(value) == IsDigit(Strip(value))

C12_ResolutionNeverFails ==
    [][pc = "settings" /\ pc' \notin Exited =>
         /\ pc' = "open"
         /\ params'.device_index \in {<<>>, <<0>>}
         /\ Unsigned(env.AUDIO_SAMPLE_RATE) =>
                params'.sample_rate = IntParse(env.AUDIO_SAMPLE_RATE)[1]
         /\ ~Unsigned(env.AUDIO_SAMPLE_RATE) =>
                /\ params'.sample_rate \in {48000, 44100}
                /\ params'.device_index = <<>> => params'.sample_rate = 44100]_vars

\* a stream opened on the system default input (device None) at 44100 Hz
C12_Witness ==
    /\ pc = "read" /\ stream = "open"
    /\ params.device_index = <<>>
    /\ params.sample_rate = 44100

\* C15: the process never holds the device resources of more than one
\* session: at most one PyAudio instance and one stream are unreleased, and
\* none is when a session begins (line 209 not yet executed).
C15_OneSessionsResources ==
    /\ paLive <= 1
    /\ streamsOpen <= 1
    /\ pc = "pa_init" => (paLive = 0 /\ streamsOpen = 0)

\* C16: an iteration whose window test is false starts no session (no
\* device opened, no file written, no upload made) and sleeps 300 s, after
\* which the only thing done is the next window test; a session is started
\* only by an iteration whose window test was true, and one per iteration:
\* the session counter moves by one, at the call of line 240, which is
\* reached from a true window test only.
C16_SessionOnlyInWindow ==
    [][/\ (pc = "test" /\ pc' \notin Exited) =>
            IF is_recording_time(RECORDING_HOURS, TimeOf(DateTimeOf(now')))
            THEN pc' = "session" /\ sleepSecs' = 0
            ELSE /\ pc' = "sleep_out"
                 /\ sleepSecs' = 300
                 /\ UNCHANGED <<sessions, sessVars, diskVars, leakVars>>
       /\ (pc = "sleep_out" /\ pc' \notin Exited) =>
            /\ pc' = "test"
            /\ UNCHANGED <<sessions, sessVars, diskVars, leakVars>>
       /\ sessions' # sessions => (pc = "session" /\ sessions' = sessions + 1)
       /\ pc' = "session" => pc \in {"test", "session"}
       /\ (pc = "session" /\ pc' \notin Exited) => pc' \in {"session", "pa_init"}]_vars

\* the loop asleep outside the window after it ran one session inside it
C16_Witness ==
    /\ pc = "sleep_out" /\ sleepSecs = 300
    /\ sessions = 1
    /\ ~is_recording_time(RECORDING_HOURS, TimeOf(DateTimeOf(now)))

\* C17: the main loop is reached only with a Config whose four fields are
\* all set and non-empty, and a start-up that ends without reaching the loop
\* has logged which variable is not set.
C17_LoopOnlyWithCompleteConfig ==
    /\ pc = "test" => \A k \in DOMAIN config : environ[k] # <<>> /\ config[k] # ""
    /\ pc = "crashed" => lastLog = "Environment variable not set! Exiting..."

\* C18: no wraparound. When the start hour, clamped to [0, 23], is greater
\* than the clamped end hour, the window test is false at every time of day.
C18_NoWraparound ==
    (wResult # "unprobed" /\ Clamp(wHours[1]) > Clamp(wHours[2]))
        => wResult = "OutOfWindow"

\* window [18, 9] probed at 23:59:59.999999 and found OutOfWindow
C18_Witness ==
    /\ wHours = <<18, 9>>
    /\ wNow = [hour |-> 23, minute |-> 59, second |-> 59, microsecond |-> 999999]
    /\ wResult = "OutOfWindow"

\* C20: a file left partially written by a failed container write stays in
\* the directory as it is: no step removes it or replaces its content, and
\* no upload call is made for its path.
C20_PartialFileStays ==
    [][/\ \A f \in DOMAIN files :
            ~files[f].complete => (f \in DOMAIN files' /\ files'[f] = files[f])
       /\ uploads' # uploads =>
            \A f \in DOMAIN files :
                ~files[f].complete => uploads'[Len(uploads')].Filename # f]_vars

\* the positions of a session in progress, of the handler and of its back-off
InSession == {"session", "pa_init", "settings", "open", "read", "encode", "check",
              "upload", "remove", "handler", "backoff"}

\* C19: when every call returns and no cancellation arrives, the read loop
\* makes at most total_chunks attempts, every session in progress (and the
\* handler of an unexpected error) leads back to the window test, the
\* session that returns there leaves nothing behind to be tried again, and
\* from a window test a new session is started unless the clock has left
\* the window (or the model's session bound is reached).
C19_LoopGoesOn ==
    /\ [](reads <= total)
    /\ [][/\ (pc \in InSession /\ pc' = "test") =>
               (startedAt' = 0 /\ filename' = "" /\ frames' = <<>> /\ recorded' = "none")
          /\ (pc = "check" /\ recorded = "False") => pc' \in {"check", "test"}
          /\ (pc = "upload" /\ pc' = "test") => ~uploads'[Len(uploads')].ok]_vars
    /\ (pc \in InSession) ~> (pc = "test")
    /\ \A n \in 0 .. MaxSessions - 1 :
            (pc = "test" /\ sessions = n) ~> (sessions = n + 1 \/ pc = "sleep_out")

\* the loop back at the window test after a second session, the first one
\* having ended with a failed upload
C19_Witness ==
    /\ pc = "test"
    /\ sessions = 2
    /\ Len(uploads) >= 1 /\ ~uploads[1].ok /\ uploads[1].session = 1

====
